---- MODULE Spec2Model ----
(***************************************************************************)
(* Model of the hypervisor state adapter of vmpinning                      *)
(* (src/schedulerlocal/domain/libvirtconnector.py, class LibvirtConnector) *)
(* together with the hypervisor it talks to.                               *)
(*                                                                         *)
(* The adapter's state is the entity cache (a dict from UUID to a          *)
(* DomainEntity object).  Entities are objects: the model keeps them in a  *)
(* heap, the position in the heap being the object's identity, so that     *)
(* "the same object" and "an equal object" are different things.           *)
(* The hypervisor is the environment: its VMs run, stop, restart, vanish   *)
(* and get repinned behind the adapter's back.                             *)
(*                                                                         *)
(* Every adapter operation records what it did (the hypervisor calls it    *)
(* made, what it returned or raised) in the variable last, which is what   *)
(* a caller or a test double of the hypervisor could observe.              *)
(*                                                                         *)
(* The control loop (src/schedulerlocal/schedulerlocal.py, class           *)
(* SchedulerLocal) and the construction of the adapter are modelled as     *)
(* well: the variable connector holds what the adapter object is made of,  *)
(* the variable sched the position and the locals of the process from its  *)
(* start to the ticks of run().                                            *)
(***************************************************************************)
EXTENDS Integers, Sequences, FiniteSets, TLC

(***************************************************************************)
(* Bounds of the model.                                                    *)
(***************************************************************************)
\* Number of physical cores of the modelled host.
HostCores == 2
\* Largest host core count handed to build_cpu_pinning.
MaxCores == 3
\* Longest cpu_list handed to build_cpu_pinning.
MaxList == 2
\* Number of DomainEntity objects ever constructed.
MaxObj == 2
\* Largest value of the wall clock (time.time_ns()).
MaxClock == 3
\* Largest cumulative cpu_time a VM reaches.
MaxCpuTime == 2
\* Largest memory counter reported by memoryStats().
MaxMemStat == 2
\* Resolution of the wall clock in the control loop: clock units per second.
UnitsPerSec == 2
\* Largest tick period (delay, in seconds) the control loop is built with.
MaxDelay == 2
\* Longest time one call of the policy pool's iterate takes, in clock units.
MaxBody == 5
\* Longest time time.sleep() sleeps beyond what it was asked, in clock units.
MaxOversleep == 1
\* Largest value of the wall clock in the control loop, in clock units.
MaxWall == 12

(***************************************************************************)
(* The hypervisor's VMs.  UUID, name, maximum memory and vCPU count of a   *)
(* VM are fixed; its run state, pin masks, descriptor and CPU counters     *)
(* change.                                                                 *)
(***************************************************************************)
UUIDS == {"u1", "u2"}

NameOf(u) == IF u = "u1" THEN "vm-one" ELSE "vm-two"

MemOf(u) == IF u = "u1" THEN 4 ELSE 8

VcpuOf(u) == IF u = "u1" THEN 2 ELSE 1

\* Oversubscription ratio a descriptor holds at the start; 0 stands for a
\* descriptor with no oversubscription metadata.
NoRatio == 0

InitialRatio(u) == IF u = "u1" THEN NoRatio ELSE 3

\* The ratio xmlDomainMetaData generates when the descriptor holds none.
DefaultRatio == 1

VARIABLES
  hv,            \* hypervisor: per UUID, the VM's state
  clock,         \* last value time.time_ns() returned
  cache_entity,  \* self.cache_entity: UUID -> object identity
  heap,          \* the DomainEntity objects constructed so far
  last,          \* the last operation: arguments, hypervisor calls, outcome
  connector,     \* the LibvirtConnector object: its attributes, its connection
  sched          \* the process: position in startup and run(), run()'s locals

vars == <<hv, clock, cache_entity, heap, last, connector, sched>>

\* What the adapter's operations and the hypervisor's steps leave alone.
process == <<connector, sched>>

(***************************************************************************)
(* Pin masks and templates: tuples of booleans, position i+1 of the        *)
(* sequence being index i of the Python tuple.                             *)
(***************************************************************************)
RECURSIVE SetTrue(_, _)
\* template_pin[i] = True for every i of the sequence ids (0-based indices
\* already resolved), in order.
SetTrue(t, ids) ==
  IF ids = <<>> THEN t
  ELSE SetTrue([t EXCEPT ![Head(ids) + 1] = TRUE], Tail(ids))

\* Python's list index: i in 0..n-1 is itself, i in -n..-1 counts from the
\* end, anything else raises IndexError (here: -1 stands for the raise).
PyIndex(i, n) ==
  IF 0 <= i /\ i < n THEN i
  ELSE IF -n <= i /\ i < 0 THEN n + i
  ELSE -1

\* build_cpu_pinning raises IndexError iff some id of cpu_list has no index.
BuildRaises(cpu_list, host_config) ==
  \E k \in 1..Len(cpu_list) : PyIndex(cpu_list[k], host_config) = -1

\* Line 162 inside the loop of line 161: returns after the first CPU.
BuildTemplateFirstOnly(cpu_list, host_config) ==
  SetTrue([i \in 1..host_config |-> FALSE],
          [k \in 1..(IF Len(cpu_list) > 0 THEN 1 ELSE 0) |->
             PyIndex(cpu_list[k], host_config)])

\* The tuple build_cpu_pinning returns when it does not raise.
BuildTemplate(cpu_list, host_config) ==
  SetTrue([i \in 1..host_config |-> FALSE],
          [k \in 1..Len(cpu_list) |-> PyIndex(cpu_list[k], host_config)])

(***************************************************************************)
(* The hypervisor (libvirt), as the adapter sees it through a handle.      *)
(***************************************************************************)
\* The default mask of a vCPU: every host core allowed.
AllCores == [i \in 1..HostCores |-> TRUE]

\* The masks a vCPU of the host can carry (libvirt refuses an empty mask).
Masks == {m \in [1..HostCores -> BOOLEAN] : \E i \in 1..HostCores : m[i]}

\* virDomain.UUIDString() and virDomain.name() are answered by the handle
\* itself; every other call asks the hypervisor and raises libvirtError
\* when the VM no longer exists.
HandleValid(u) == hv[u].state # "undefined"

\* virDomain.vcpuPinInfo(): one mask per vCPU.
vcpuPinInfo(u) == hv[u].pin

\* virDomain.XMLDesc(): the live descriptor of a running VM, the persistent
\* one of a stopped VM.  A descriptor is modelled by the ratio it holds.
XMLDesc(u) == IF hv[u].state = "running" THEN hv[u].live_ratio ELSE hv[u].conf_ratio

\* conn.defineXML(xml): replaces the persistent descriptor; the live one
\* follows at the VM's next start.
defineXML(h, u, xml) == [h EXCEPT ![u].conf_ratio = xml]

\* virDomain.getCPUStats(total=True)[0] of a running VM.
getCPUStats(u) ==
  [cpu_time    |-> hv[u].cpu_time,
   system_time |-> hv[u].cpu_time \div 2,
   user_time   |-> hv[u].cpu_time - (hv[u].cpu_time \div 2)]

(***************************************************************************)
(* xmlDomainMetaData and DomainEntity: their source is not in src/; they   *)
(* are modelled from the specification's data model.                       *)
(***************************************************************************)
\* xml_manager.updated(): the descriptor held no ratio, defaults were generated.
updated(xml) == xml = NoRatio

\* xml_manager.get_oversub_ratios()['cpu']
get_oversub_ratios_cpu(xml) == IF xml = NoRatio THEN DefaultRatio ELSE xml

\* xml_manager.convert_to_str_xml(): the descriptor carrying the ratio.
convert_to_str_xml(xml) == get_oversub_ratios_cpu(xml)

\* DomainEntity(uuid=..., name=..., mem=..., cpu=..., cpu_pin=..., cpu_ratio=...)
\* time is <<>> until set_time stores <<epoch_ns, total, system, user>>.
DomainEntity(uuid, name, mem, cpu, cpu_pin, cpu_ratio) ==
  [uuid |-> uuid, name |-> name, mem |-> mem, cpu |-> cpu,
   cpu_pin |-> cpu_pin, cpu_ratio |-> cpu_ratio, time |-> <<>>]

has_time(vm) == vm.time # <<>>

get_time(vm) == vm.time

set_time(vm, epoch_ns, total, system, user) ==
  [vm EXCEPT !.time = <<epoch_ns, total, system, user>>]

(***************************************************************************)
(* What an operation leaves for its caller to observe.                     *)
(***************************************************************************)
\* The record of an operation that has not done anything yet.
NoCall ==
  [op |-> "none", uuid |-> "-", obj |-> 0, force |-> FALSE,
   exc |-> "none", ret |-> "none", ret_obj |-> 0,
   num |-> 0, den |-> 1, tpl |-> <<>>,
   calls |-> <<>>, seen_pin |-> <<>>, pins |-> <<>>, warn |-> <<>>,
   cpu_list |-> <<>>, host_config |-> 0, rss |-> 0, actual |-> 1]

Objects == 1..Len(heap)

EmptyCache == [u \in {} |-> 0]

\* The attributes __init__ has set on a constructed LibvirtConnector.
AllAttributes == {"url", "conn", "cache_entity"}

\* A LibvirtConnector whose construction succeeded.
Connected == [attrs |-> AllAttributes, conn |-> "open"]

\* The process before anything was constructed.
NotStarted ==
  [pc |-> "start", exc |-> "none", delay |-> 0, launch_at |-> 0, time_begin |-> 0,
   ticks |-> 0, timestamp |-> 0, sleeps |-> <<>>, warns |-> <<>>]

\* The process inside a tick of run(): the policy pool is calling the adapter.
InIteration == [NotStarted EXCEPT !.pc = "iteration", !.delay = 1]

Init ==
  /\ hv = [u \in UUIDS |->
             [state |-> "running",
              pin |-> [v \in 1..VcpuOf(u) |-> AllCores],
              live_ratio |-> InitialRatio(u),
              conf_ratio |-> InitialRatio(u),
              cpu_time |-> 0]]
  /\ clock = 0
  /\ cache_entity = EmptyCache
  /\ heap = <<>>
  /\ last = NoCall
  /\ connector = Connected
  /\ sched = InIteration

(***************************************************************************)
(* convert_to_entitydomain(virDomain, force_update)                        *)
(***************************************************************************)
\* Line 101 without its "not": the flag read the wrong way round.
CacheHitInverted(uuid, force_update) ==
  force_update /\ uuid \in DOMAIN cache_entity

\* Line 101 without the test of force_update.
CacheHitIgnoresForce(uuid, force_update) ==
  uuid \in DOMAIN cache_entity

\* Line 101: the cached entity is returned as is.
CacheHit(uuid, force_update) ==
  (~force_update) /\ uuid \in DOMAIN cache_entity

\* Line 111 outside the test of line 110.
DescriptorWritesAlways(xml) ==
  <<"defineXML">>

\* Line 110: the descriptor is rewritten when defaults were generated.
DescriptorWrites(xml) ==
  IF updated(xml) THEN <<"defineXML">> ELSE <<>>

\* Line 112: the warning printed with the descriptor write.
Warnings(xml, name) ==
  IF updated(xml) THEN <<name>> ELSE <<>>

\* Line 115 refreshing the cached entity, which keeps its last sample.
FreshEntityKeepsSample(u) ==
  [DomainEntity(u, NameOf(u), MemOf(u), VcpuOf(u), vcpuPinInfo(u),
                get_oversub_ratios_cpu(XMLDesc(u)))
     EXCEPT !.time = IF u \in DOMAIN cache_entity
                     THEN heap[cache_entity[u]].time ELSE <<>>]

\* Lines 103-115: the entity built from what the handle reports now.
FreshEntity(u) ==
  DomainEntity(u, NameOf(u), MemOf(u), VcpuOf(u), vcpuPinInfo(u),
               get_oversub_ratios_cpu(XMLDesc(u)))

\* Line 115 with the VM's name as the key.
CacheStoreByName(uuid, id) ==
  (NameOf(uuid) :> id) @@ cache_entity

\* Line 115: self.cache_entity[uuid] = the entity just constructed.
CacheStore(uuid, id) ==
  (uuid :> id) @@ cache_entity

convert_to_entitydomain(u, force_update) ==
  IF CacheHit(u, force_update) THEN
    /\ last' = [NoCall EXCEPT !.op = "convert", !.uuid = u, !.force = force_update,
                              !.calls = <<"UUIDString">>,
                              !.ret = "entity", !.ret_obj = cache_entity[u]]
    /\ UNCHANGED <<hv, clock, cache_entity, heap>>
  ELSE IF ~HandleValid(u) THEN
    \* virDomain.maxMemory() raises: nothing was changed yet
    /\ last' = [NoCall EXCEPT !.op = "convert", !.uuid = u, !.force = force_update,
                              !.calls = <<"UUIDString", "name", "maxMemory">>,
                              !.exc = "libvirtError"]
    /\ UNCHANGED <<hv, clock, cache_entity, heap>>
  ELSE
    /\ Len(heap) < MaxObj
    /\ LET xml == XMLDesc(u)
           id  == Len(heap) + 1
       IN /\ hv' = IF updated(xml) THEN defineXML(hv, u, convert_to_str_xml(xml)) ELSE hv
          /\ heap' = Append(heap, FreshEntity(u))
          /\ cache_entity' = CacheStore(u, id)
          /\ last' = [NoCall EXCEPT !.op = "convert", !.uuid = u, !.force = force_update,
                                    !.calls = <<"UUIDString", "name", "maxMemory", "maxVcpus",
                                                "vcpuPinInfo", "XMLDesc">>
                                               \o DescriptorWrites(xml),
                                    !.warn = Warnings(xml, NameOf(u)),
                                    !.ret = "entity", !.ret_obj = id]
    /\ UNCHANGED clock

(***************************************************************************)
(* cache_purge()                                                           *)
(***************************************************************************)
\* Lines 168-169 left out: the cache keeps its entries.
cache_purge_keeps ==
  /\ cache_entity' = cache_entity
  /\ last' = [NoCall EXCEPT !.op = "purge"]
  /\ UNCHANGED <<hv, clock, heap>>

cache_purge ==
  /\ cache_entity' = EmptyCache
  /\ last' = [NoCall EXCEPT !.op = "purge"]
  /\ UNCHANGED <<hv, clock, heap>>

(***************************************************************************)
(* update_cpu_pinning(vm, template_pin)                                    *)
(***************************************************************************)
\* Line 131 taking the masks from the entity instead of the hypervisor.
CurrentPinOfEntity(vm) ==
  vm.cpu_pin

\* Lines 130-131: the masks the hypervisor reports for the entity's VM now.
CurrentPin(vm) ==
  vcpuPinInfo(vm.uuid)

\* Lines 133-138 always finding an update needed.
UpdateNeededAlways(vm_pin, template_pin) ==
  TRUE

\* Lines 134-138: some vCPU's current mask differs from the template.
UpdateNeeded(vm_pin, template_pin) ==
  \E k \in 1..Len(vm_pin) : vm_pin[k] # template_pin

\* Line 142 writing only the vCPUs whose mask differs.
PinWritesOnlyDrifted(vm_pin, template_pin) ==
  SelectSeq([k \in 1..Len(vm_pin) |-> <<k - 1, template_pin>>],
            LAMBDA w : vm_pin[w[1] + 1] # template_pin)

\* Line 142: one pinVcpu(vcpu, template_pin) per vCPU, in order.
PinWrites(vm_pin, template_pin) ==
  [k \in 1..Len(vm_pin) |-> <<k - 1, template_pin>>]

update_cpu_pinning(o, template_pin) ==
  LET u == heap[o].uuid
      vm_pin == CurrentPin(heap[o])
      called == [NoCall EXCEPT !.op = "pin", !.obj = o, !.uuid = u, !.tpl = template_pin]
      seen == [called EXCEPT !.seen_pin = vm_pin]
  IN
  IF ~HandleValid(u) THEN
    \* conn.lookupByUUIDString raises
    /\ last' = [called EXCEPT !.calls = <<"lookupByUUIDString">>, !.exc = "libvirtError"]
    /\ UNCHANGED <<hv, clock, cache_entity, heap>>
  ELSE IF ~UpdateNeeded(vm_pin, template_pin) THEN
    /\ last' = [seen EXCEPT !.calls = <<"lookupByUUIDString", "vcpuPinInfo">>]
    /\ UNCHANGED <<hv, clock, cache_entity, heap>>
  ELSE IF hv[u].state # "running" THEN
    \* pinVcpu changes the runtime configuration only: the first write raises
    /\ last' = [seen EXCEPT !.calls = <<"lookupByUUIDString", "vcpuPinInfo">>,
                            !.pins = SubSeq(PinWrites(vm_pin, template_pin), 1, 1),
                            !.exc = "libvirtError"]
    /\ UNCHANGED <<hv, clock, cache_entity, heap>>
  ELSE
    /\ last' = [seen EXCEPT !.calls = <<"lookupByUUIDString", "vcpuPinInfo">>,
                            !.pins = PinWrites(vm_pin, template_pin)]
    /\ hv' = [hv EXCEPT ![u].pin =
                [k \in 1..Len(vm_pin) |->
                   IF \E w \in 1..Len(last'.pins) : last'.pins[w][1] = k - 1
                   THEN template_pin ELSE vm_pin[k]]]
    /\ UNCHANGED <<clock, cache_entity, heap>>

(***************************************************************************)
(* build_cpu_pinning(cpu_list, host_config)                                *)
(***************************************************************************)
build_cpu_pinning(cpu_list, host_config) ==
  /\ last' = IF BuildRaises(cpu_list, host_config)
             THEN [NoCall EXCEPT !.op = "build", !.cpu_list = cpu_list,
                                 !.host_config = host_config, !.exc = "IndexError"]
             ELSE [NoCall EXCEPT !.op = "build", !.cpu_list = cpu_list,
                                 !.host_config = host_config, !.ret = "tuple",
                                 !.tpl = BuildTemplate(cpu_list, host_config)]
  /\ UNCHANGED <<hv, clock, cache_entity, heap>>

(***************************************************************************)
(* get_usage_cpu(vm)                                                       *)
(***************************************************************************)
\* Line 195 without the previous sample: the average since the counters' origin.
CpuUsageNormSinceZero(total, prev_total, epoch_ns, prev_epoch, cpu) ==
  LET n == total
      d == epoch_ns * cpu
  IN IF n > d THEN <<1, 1>> ELSE <<n, d>>

\* Lines 195-197: (total-prev_total)/(epoch_ns-prev_epoch)/cpu as the
\* fraction <<numerator, denominator>>, replaced by 1 when greater than 1.
\* The wall clock has advanced between two reads, so the denominator is > 0.
CpuUsageNorm(total, prev_total, epoch_ns, prev_epoch, cpu) ==
  LET n == total - prev_total
      d == (epoch_ns - prev_epoch) * cpu
  IN IF n > d THEN <<1, 1>> ELSE <<n, d>>

\* Line 198 with system and user exchanged.
StoredSampleSwapped(epoch_ns, stats) ==
  <<epoch_ns, stats.cpu_time, stats.user_time, stats.system_time>>

\* Lines 191 and 198: the sample handed to vm.set_time.
StoredSample(epoch_ns, stats) ==
  <<epoch_ns, stats.cpu_time, stats.system_time, stats.user_time>>

get_usage_cpu(o, epoch_ns) ==
  LET vm == heap[o]
      u == vm.uuid
      seen == [NoCall EXCEPT !.op = "usage_cpu", !.obj = o, !.uuid = u]
  IN
  IF ~HandleValid(u) THEN
    \* conn.lookupByUUIDString raises, outside the try
    /\ last' = [seen EXCEPT !.calls = <<"lookupByUUIDString">>, !.exc = "libvirtError"]
    /\ UNCHANGED <<hv, clock, cache_entity, heap>>
  ELSE
    /\ clock' = epoch_ns
    /\ IF hv[u].state # "running" THEN
         \* getCPUStats raises libvirtError, turned into ConsumerNotAlived
         /\ last' = [seen EXCEPT !.calls = <<"lookupByUUIDString", "getCPUStats">>,
                                 !.exc = "ConsumerNotAlived"]
         /\ UNCHANGED <<hv, cache_entity, heap>>
       ELSE
         LET stats == getCPUStats(u)
             usage == IF has_time(vm)
                      THEN CpuUsageNorm(stats.cpu_time, get_time(vm)[2],
                                        epoch_ns, get_time(vm)[1], vm.cpu)
                      ELSE <<0, 1>>
             sample == StoredSample(epoch_ns, stats)
         IN /\ heap' = [heap EXCEPT ![o] = set_time(vm, sample[1], sample[2],
                                                    sample[3], sample[4])]
            /\ last' = [seen EXCEPT !.calls = <<"lookupByUUIDString", "getCPUStats">>,
                                    !.ret = IF has_time(vm) THEN "float" ELSE "None",
                                    !.num = usage[1], !.den = usage[2]]
            /\ UNCHANGED <<hv, cache_entity>>

(***************************************************************************)
(* get_usage_mem(vm)                                                       *)
(***************************************************************************)
\* Lines 221-223 without line 222.
MemUsageNoClamp(rss, actual) ==
  <<rss, actual>>

\* Lines 221-223: rss/actual as a fraction, replaced by 1 when greater than 1.
MemUsage(rss, actual) ==
  IF rss > actual THEN <<1, 1>> ELSE <<rss, actual>>

get_usage_mem(o, rss, actual) ==
  LET u == heap[o].uuid
      seen == [NoCall EXCEPT !.op = "usage_mem", !.obj = o, !.uuid = u]
  IN
  /\ IF ~HandleValid(u) THEN
       last' = [seen EXCEPT !.calls = <<"lookupByUUIDString">>, !.exc = "libvirtError"]
     ELSE IF hv[u].state # "running" THEN
       last' = [seen EXCEPT !.calls = <<"lookupByUUIDString", "memoryStats">>,
                            !.exc = "ConsumerNotAlived"]
     ELSE
       last' = [seen EXCEPT !.calls = <<"lookupByUUIDString", "memoryStats">>,
                            !.rss = rss, !.actual = actual, !.ret = "float",
                            !.num = MemUsage(rss, actual)[1],
                            !.den = MemUsage(rss, actual)[2]]
  /\ UNCHANGED <<hv, clock, cache_entity, heap>>

(***************************************************************************)
(* The hypervisor's own steps.                                             *)
(***************************************************************************)
\* A running VM is shut down; a persistent VM stays defined.
HvStop(u) ==
  /\ hv[u].state = "running"
  /\ hv' = [hv EXCEPT ![u].state = "shutoff"]
  /\ last' = NoCall
  /\ UNCHANGED <<clock, cache_entity, heap>>

\* A stopped VM is started: the persistent descriptor becomes the live one
\* and the cumulative CPU counters start again from 0.
HvStart(u) ==
  /\ hv[u].state = "shutoff"
  /\ hv' = [hv EXCEPT ![u].state = "running",
                      ![u].live_ratio = hv[u].conf_ratio,
                      ![u].cpu_time = 0]
  /\ last' = NoCall
  /\ UNCHANGED <<clock, cache_entity, heap>>

\* A VM vanishes: a transient VM that stopped, or a VM that was undefined.
HvVanish(u) ==
  /\ hv[u].state # "undefined"
  /\ hv' = [hv EXCEPT ![u].state = "undefined"]
  /\ last' = NoCall
  /\ UNCHANGED <<clock, cache_entity, heap>>

\* A running VM consumes CPU time.
HvRun(u, t) ==
  /\ hv[u].state = "running"
  /\ t > hv[u].cpu_time
  /\ hv' = [hv EXCEPT ![u].cpu_time = t]
  /\ last' = NoCall
  /\ UNCHANGED <<clock, cache_entity, heap>>

\* Someone else repins one vCPU of a running VM.
HvPin(u, v, m) ==
  /\ hv[u].state = "running"
  /\ hv[u].pin[v] # m
  /\ hv' = [hv EXCEPT ![u].pin[v] = m]
  /\ last' = NoCall
  /\ UNCHANGED <<clock, cache_entity, heap>>

(***************************************************************************)
(* The adapter in use.  Its operations are called in any order, on any     *)
(* VM and with any entity a caller still holds, while VMs stop, start and  *)
(* vanish.  Pin masks change here only through the adapter's own writes    *)
(* and CPU counters stay at 0; the two specifications that follow let the  *)
(* hypervisor change those as well.                                        *)
(***************************************************************************)
Convert ==
  /\ \E u \in UUIDS, f \in BOOLEAN : convert_to_entitydomain(u, f)
  /\ UNCHANGED process

Purge == cache_purge /\ UNCHANGED process

Pin ==
  /\ \E o \in Objects, t \in Masks : update_cpu_pinning(o, t)
  /\ UNCHANGED process

UsageCpu ==
  /\ \E o \in Objects, e \in (clock + 1)..MaxClock : get_usage_cpu(o, e)
  /\ UNCHANGED process

UsageMem ==
  /\ \E o \in Objects, r \in 0..MaxMemStat, a \in 1..MaxMemStat : get_usage_mem(o, r, a)
  /\ UNCHANGED process

Stop == (\E u \in UUIDS : HvStop(u)) /\ UNCHANGED process

Start == (\E u \in UUIDS : HvStart(u)) /\ UNCHANGED process

Vanish == (\E u \in UUIDS : HvVanish(u)) /\ UNCHANGED process

Run == (\E u \in UUIDS, t \in 1..MaxCpuTime : HvRun(u, t)) /\ UNCHANGED process

Repin ==
  /\ \E u \in UUIDS : \E v \in 1..VcpuOf(u), m \in Masks : HvPin(u, v, m)
  /\ UNCHANGED process

Next ==
  \/ Convert
  \/ Purge
  \/ Pin
  \/ UsageCpu
  \/ UsageMem
  \/ Stop
  \/ Start
  \/ Vanish

Spec == Init /\ [][Next]_vars

(***************************************************************************)
(* Usage telemetry: the VMs also consume CPU time between two reads.       *)
(***************************************************************************)
NextUsage ==
  \/ Convert
  \/ UsageCpu
  \/ UsageMem
  \/ Run
  \/ Stop
  \/ Start
  \/ Vanish

SpecUsage == Init /\ [][NextUsage]_vars

(***************************************************************************)
(* Pinning: the vCPUs' masks also drift behind the adapter's back.         *)
(***************************************************************************)
NextPin ==
  \/ Convert
  \/ Pin
  \/ Repin
  \/ Stop
  \/ Start
  \/ Vanish

SpecPin == Init /\ [][NextPin]_vars

(***************************************************************************)
(* build_cpu_pinning on its own: one call, with any list of CPU ids and    *)
(* any host core count, on an adapter that is either just constructed or   *)
(* has resolved VM u2.  The call's arguments wait in last until the call   *)
(* is made.                                                                *)
(***************************************************************************)
CpuIds == (-(MaxCores + 1))..MaxCores

CpuLists == UNION {[1..n -> CpuIds] : n \in 0..MaxList}

InitBuild ==
  /\ hv = [u \in UUIDS |->
             [state |-> "running",
              pin |-> [v \in 1..VcpuOf(u) |-> AllCores],
              live_ratio |-> InitialRatio(u),
              conf_ratio |-> InitialRatio(u),
              cpu_time |-> 0]]
  /\ clock = 0
  /\ \/ cache_entity = EmptyCache /\ heap = <<>>
     \/ cache_entity = ("u2" :> 1) /\ heap = <<FreshEntity("u2")>>
  /\ \E l \in CpuLists, n \in 0..MaxCores :
       last = [NoCall EXCEPT !.op = "build?", !.cpu_list = l, !.host_config = n]
  /\ connector = Connected
  /\ sched = InIteration

Build ==
  /\ last.op = "build?"
  /\ build_cpu_pinning(last.cpu_list, last.host_config)
  /\ UNCHANGED process

NextBuild == Build

SpecBuild == InitBuild /\ [][NextBuild]_vars

(***************************************************************************)
(* The process from its start: LibvirtConnector(url=...), then             *)
(* SchedulerLocal(connector=..., delay=...), then run().  The wall clock   *)
(* (time.time_ns(), here in units of 1/UnitsPerSec second) advances while  *)
(* the policy pool iterates and while the loop sleeps; the statements of   *)
(* run() themselves take no time at this resolution.                       *)
(***************************************************************************)
\* The script that starts the process is not in src/: following the
\* specification, it goes on to the next step only when a constructor
\* returned; an exception it raised ends the process.
MainProceeds(exc) == exc = "none"

\* Lines 22-25 without the test of line 23.
InitRaisesUnchecked(has_url, opened) ==
  IF ~has_url THEN "ValueError"
  ELSE IF opened = "libvirtError" THEN "libvirtError"
  ELSE "none"

\* Lines 17-24: what LibvirtConnector.__init__ raises.  libvirt.open either
\* returns a connection, returns None or raises libvirtError itself.
InitRaises(has_url, opened) ==
  IF ~has_url THEN "ValueError"
  ELSE IF opened = "libvirtError" THEN "libvirtError"
  ELSE IF opened = "None" THEN "SystemExit"
  ELSE "none"

\* Lines 16-25: the attributes set on the object when __init__ ends.
InitAttributes(has_url, opened) ==
  IF ~has_url THEN {}
  ELSE IF opened = "libvirtError" THEN {"url"}
  ELSE IF InitRaises(has_url, opened) # "none" THEN {"url", "conn"}
  ELSE AllAttributes

LibvirtConnector_init(has_url, opened) ==
  /\ sched.pc = "start"
  /\ connector' = [attrs |-> InitAttributes(has_url, opened),
                   conn  |-> IF has_url /\ opened # "libvirtError" THEN opened ELSE "none"]
  /\ cache_entity' = EmptyCache
  /\ sched' = IF MainProceeds(InitRaises(has_url, opened))
              THEN [sched EXCEPT !.pc = "connected"]
              ELSE [sched EXCEPT !.pc = "exited", !.exc = InitRaises(has_url, opened)]
  /\ UNCHANGED <<hv, clock, heap, last>>

\* SchedulerLocal.__init__, line 16.
req_attributes == {"cpuset", "memset", "connector", "delay"}

\* Lines 15-24: the required arguments are checked, the policy pool and the
\* API endpoint are created and the endpoint is started.
SchedulerLocal_init(kwargs, delay) ==
  /\ sched.pc = "connected"
  /\ sched' = IF MainProceeds(IF req_attributes \subseteq kwargs THEN "none" ELSE "ValueError")
              THEN [sched EXCEPT !.pc = "constructed", !.delay = delay]
              ELSE [sched EXCEPT !.pc = "exited", !.exc = "ValueError"]
  /\ UNCHANGED <<hv, clock, cache_entity, heap, last, connector>>

\* Line 30: launch_at = time.time_ns()
run_launch ==
  /\ sched.pc = "constructed"
  /\ sched' = [sched EXCEPT !.pc = "begin", !.launch_at = clock]
  /\ UNCHANGED <<hv, clock, cache_entity, heap, last, connector>>

\* Line 34 passing the difference on without the division by 10**9.
TimeSinceLaunchUndivided(time_begin, launch_at) ==
  time_begin - launch_at

\* Line 34: int((time_begin-launch_at)/(10**9)); int() truncates towards 0
\* and the difference is not negative.
TimeSinceLaunch(time_begin, launch_at) ==
  (time_begin - launch_at) \div UnitsPerSec

\* Lines 32-34, up to the call: the tick starts, __iteration is called.
run_tick_begin ==
  /\ sched.pc = "begin"
  /\ sched' = [sched EXCEPT !.pc = "iteration",
                            !.time_begin = clock,
                            !.timestamp = TimeSinceLaunch(clock, sched.launch_at),
                            !.ticks = sched.ticks + 1,
                            !.sleeps = <<>>, !.warns = <<>>]
  /\ UNCHANGED <<hv, clock, cache_entity, heap, last, connector>>

\* Lines 40-45: managers_pool.iterate(timestamp=...) returns after d units.
iteration(d) ==
  /\ sched.pc = "iteration"
  /\ clock + d <= MaxWall
  /\ clock' = clock + d
  /\ sched' = [sched EXCEPT !.pc = "budget"]
  /\ UNCHANGED <<hv, cache_entity, heap, last, connector>>

\* Line 36 forgetting the time the tick took.
TimeToSleepWholeDelay(delay, now, time_begin) ==
  delay * UnitsPerSec

\* Line 36: (self.delay*10**9) - (time.time_ns() - time_begin)
TimeToSleep(delay, now, time_begin) ==
  (delay * UnitsPerSec) - (now - time_begin)

\* Lines 36-38: sleep what is left of the period, or warn of the overlap.
\* time.sleep suspends for at least the time asked.
run_tick_end(over) ==
  /\ sched.pc = "budget"
  /\ LET time_to_sleep == TimeToSleep(sched.delay, clock, sched.time_begin)
     IN IF time_to_sleep > 0
        THEN /\ clock + time_to_sleep + over <= MaxWall
             /\ clock' = clock + time_to_sleep + over
             /\ sched' = [sched EXCEPT !.pc = "begin", !.sleeps = <<time_to_sleep>>]
        ELSE /\ clock' = clock
             /\ sched' = [sched EXCEPT !.pc = "begin", !.warns = <<-time_to_sleep>>]
  /\ UNCHANGED <<hv, cache_entity, heap, last, connector>>

\* libvirt.open's outcomes.
OpenOutcomes == {"open", "None", "libvirtError"}

Construct ==
  \E has_url \in BOOLEAN, opened \in OpenOutcomes : LibvirtConnector_init(has_url, opened)

Schedule ==
  \E missing \in SUBSET {"connector", "delay"}, delay \in 1..MaxDelay :
    SchedulerLocal_init(req_attributes \ missing, delay)

Launch == run_launch

TickBegin == run_tick_begin

Iteration == \E d \in 0..MaxBody : iteration(d)

TickEnd == \E over \in 0..MaxOversleep : run_tick_end(over)

InitLoop ==
  /\ hv = [u \in UUIDS |->
             [state |-> "running",
              pin |-> [v \in 1..VcpuOf(u) |-> AllCores],
              live_ratio |-> InitialRatio(u),
              conf_ratio |-> InitialRatio(u),
              cpu_time |-> 0]]
  /\ clock \in 0..1
  /\ cache_entity = EmptyCache
  /\ heap = <<>>
  /\ last = NoCall
  /\ connector = [attrs |-> {}, conn |-> "none"]
  /\ sched = NotStarted

NextLoop ==
  \/ Construct
  \/ Schedule
  \/ Launch
  \/ TickBegin
  \/ Iteration
  \/ TickEnd

SpecLoop == InitLoop /\ [][NextLoop]_vars

(***************************************************************************)
(* The adapter shared by two execution contexts.  The loop context calls   *)
(* convert_to_entitydomain, update_cpu_pinning and cache_purge one after   *)
(* the other; the API context, started at line 24 of schedulerlocal.py,    *)
(* reads the entity cache at any moment.  The code takes no lock, so what  *)
(* the reader can meet is every state between two steps that change        *)
(* the cache: cache_purge has two, lines 168 and 169;                      *)
(* convert_to_entitydomain has one, the store of line 115, made once the   *)
(* entity is fully constructed; update_cpu_pinning has none.               *)
(***************************************************************************)
\* Line 168: del self.cache_entity
cache_purge_del ==
  /\ "cache_entity" \in connector.attrs
  /\ connector' = [connector EXCEPT !.attrs = @ \ {"cache_entity"}]
  /\ cache_entity' = EmptyCache
  /\ last' = [NoCall EXCEPT !.op = "purge:del"]
  /\ UNCHANGED <<hv, clock, heap, sched>>

\* Line 169: self.cache_entity = dict()
cache_purge_set ==
  /\ "cache_entity" \notin connector.attrs
  /\ connector' = [connector EXCEPT !.attrs = @ \cup {"cache_entity"}]
  /\ cache_entity' = EmptyCache
  /\ last' = [NoCall EXCEPT !.op = "purge"]
  /\ UNCHANGED <<hv, clock, heap, sched>>

\* The API context, whose source is not in src/: following the
\* specification it reads the adapter's entity cache and the entities in
\* it.  Reading an attribute that was deleted raises AttributeError;
\* otherwise the reader finds the entries and their entities.
api_read ==
  /\ last' = IF "cache_entity" \in connector.attrs
             THEN [NoCall EXCEPT !.op = "read", !.ret = "dict",
                                 !.num = Cardinality(DOMAIN cache_entity)]
             ELSE [NoCall EXCEPT !.op = "read", !.exc = "AttributeError"]
  /\ UNCHANGED <<hv, clock, cache_entity, heap, connector, sched>>

\* The loop context is not inside cache_purge.
LoopIdle == "cache_entity" \in connector.attrs

LoopConvert == LoopIdle /\ Convert

LoopPin == LoopIdle /\ Pin

PurgeDel == cache_purge_del

PurgeSet == cache_purge_set

Read == api_read

NextShared ==
  \/ LoopConvert
  \/ LoopPin
  \/ PurgeDel
  \/ PurgeSet
  \/ Read

SpecShared == Init /\ [][NextShared]_vars

(***************************************************************************)
(* Properties.  A step of an operation is recognised by the record it      *)
(* leaves in last: every action writes last, so a step that is not a       *)
(* stuttering step and leaves last'.op = "convert" is a step of            *)
(* convert_to_entitydomain(last'.uuid, last'.force).                       *)
(***************************************************************************)
\* Number of times the hypervisor call c was made.
Count(calls, c) == Cardinality({k \in 1..Len(calls) : calls[k] = c})

\* The step is a resolution of u's handle.
ConvertStep(u, f) == last'.op = "convert" /\ last'.uuid = u /\ last'.force = f

\* The step is a resolution that converts afresh: not served from the
\* cache, and the handle's VM still exists.
FreshConversion(u, f) ==
  /\ ConvertStep(u, f)
  /\ (f \/ u \notin DOMAIN cache_entity)
  /\ hv[u].state # "undefined"

\* C1: a resolution without force_update of a cached UUID returns the very
\* object the cache holds, leaves the cache, every entity (last sample
\* included) and the hypervisor unchanged, and makes no hypervisor call
\* besides UUIDString: no read, no descriptor write, no warning.
C1_CacheHitReturnsCached ==
  [][\A u \in UUIDS :
       (ConvertStep(u, FALSE) /\ u \in DOMAIN cache_entity)
       => /\ last'.exc = "none"
          /\ last'.ret = "entity"
          /\ last'.ret_obj = cache_entity[u]
          /\ cache_entity' = cache_entity
          /\ heap' = heap
          /\ hv' = hv
          /\ last'.calls = <<"UUIDString">>
          /\ last'.warn = <<>>]_vars

\* C1 witness: a cache hit returned an entity that carries a last sample,
\* while the VM's pin masks no longer are the ones the entity recorded.
C1_Witness ==
  /\ last.op = "convert"
  /\ last.calls = <<"UUIDString">>
  /\ heap[last.ret_obj].time # <<>>
  /\ heap[last.ret_obj].cpu_pin # hv[last.uuid].pin

\* C2: a forced resolution of an existing VM's handle reads name, memory,
\* vCPU count, pin masks and descriptor, constructs a new object from the
\* hypervisor's current values, stores it in the cache under the UUID and
\* returns it, cached or not; and a cache entry is only ever replaced or
\* dropped by a fresh conversion of its UUID or by a purge, so every later
\* resolution without force returns that object (C1) until then.
C2_ForceRefreshRereads ==
  [][/\ \A u \in UUIDS :
          (ConvertStep(u, TRUE) /\ hv[u].state # "undefined")
          => /\ last'.exc = "none"
             /\ \A c \in {"name", "maxMemory", "maxVcpus", "vcpuPinInfo", "XMLDesc"} :
                  Count(last'.calls, c) = 1
             /\ last'.ret = "entity"
             /\ last'.ret_obj \notin 1..Len(heap)
             /\ last'.ret_obj \in 1..Len(heap')
             /\ cache_entity'[u] = last'.ret_obj
             /\ \A w \in DOMAIN cache_entity \ {u} :
                  w \in DOMAIN cache_entity' /\ cache_entity'[w] = cache_entity[w]
             /\ \A o \in 1..Len(heap) : heap'[o] = heap[o]
             /\ heap'[last'.ret_obj] =
                  [uuid |-> u, name |-> NameOf(u), mem |-> MemOf(u), cpu |-> VcpuOf(u),
                   cpu_pin |-> hv[u].pin,
                   cpu_ratio |-> IF XMLDesc(u) = NoRatio THEN DefaultRatio ELSE XMLDesc(u),
                   time |-> <<>>]
     /\ \A u \in DOMAIN cache_entity :
          (u \notin DOMAIN cache_entity' \/ cache_entity'[u] # cache_entity[u])
          => \/ last'.op = "purge"
             \/ FreshConversion(u, TRUE)
             \/ FreshConversion(u, FALSE)]_vars

\* C2 witness: a forced resolution of a cached UUID returned a second
\* object, equal to the first although nothing changed on the hypervisor.
C2_Witness ==
  /\ last.op = "convert" /\ last.force /\ last.exc = "none"
  /\ last.ret_obj = 2
  /\ heap[1] = heap[2]
  /\ cache_entity[last.uuid] = 2

\* C3: a resolution writes the descriptor exactly when it converts afresh
\* and the descriptor it reads holds no ratio: then it makes one defineXML
\* call, prints one warning naming the VM, and the entity it returns
\* carries the generated default; otherwise (cache hit, or a descriptor
\* that holds a ratio) it makes no defineXML call and prints no warning.
C3_DescriptorWriteOnlyOnDefault ==
  [][\A u \in UUIDS, f \in BOOLEAN :
       ConvertStep(u, f)
       => IF FreshConversion(u, f) /\ XMLDesc(u) = NoRatio
          THEN /\ Count(last'.calls, "defineXML") = 1
               /\ last'.warn = <<NameOf(u)>>
               /\ heap'[last'.ret_obj].cpu_ratio = DefaultRatio
               /\ hv'[u].conf_ratio = DefaultRatio
          ELSE /\ Count(last'.calls, "defineXML") = 0
               /\ last'.warn = <<>>
               /\ hv' = hv]_vars

\* C3 witness: a second fresh conversion of a running VM wrote the default
\* again, the first write not being effective before the VM restarts.
C3_Witness ==
  /\ last.op = "convert" /\ last.force
  /\ Count(last.calls, "defineXML") = 1
  /\ last.warn = <<NameOf(last.uuid)>>
  /\ hv[last.uuid].conf_ratio = DefaultRatio
  /\ last.ret_obj = 2 /\ heap[1].uuid = last.uuid

\* The step is update_cpu_pinning(o, t).
PinStep(o, t) == last'.op = "pin" /\ last'.obj = o /\ last'.tpl = t

\* The vCPU indices written by the pinVcpu calls of the last operation.
WritesTo(pins, vcpu) == Cardinality({k \in 1..Len(pins) : pins[k][1] = vcpu})

\* C4: update_cpu_pinning makes no pinVcpu call when every vCPU's current
\* mask equals the template; when some vCPU's mask differs (the VM
\* running) it makes exactly one call per vCPU of the VM, those whose mask
\* already matched included, each carrying the template.
C4_RepinAllOrNothing ==
  [][\A o \in Objects, t \in Masks :
       PinStep(o, t)
       => LET u == heap[o].uuid
              n == VcpuOf(u)
          IN /\ (hv[u].state # "undefined" /\ \A v \in 1..n : hv[u].pin[v] = t)
                => (last'.pins = <<>> /\ last'.exc = "none" /\ hv' = hv)
             /\ (hv[u].state = "running" /\ \E v \in 1..n : hv[u].pin[v] # t)
                => /\ last'.exc = "none"
                   /\ Len(last'.pins) = n
                   /\ \A v \in 0..(n - 1) : WritesTo(last'.pins, v) = 1
                   /\ \A k \in 1..n : last'.pins[k][2] = t]_vars

\* C4 witness: one vCPU's mask matched the template, another's did not,
\* and both were written.
C4_Witness ==
  /\ last.op = "pin" /\ last.exc = "none"
  /\ \E v \in 1..Len(last.seen_pin) : last.seen_pin[v] = last.tpl
  /\ \E v \in 1..Len(last.seen_pin) : last.seen_pin[v] # last.tpl
  /\ Len(last.pins) = 2

\* The step is get_usage_cpu(o).
UsageCpuStep(o) == last'.op = "usage_cpu" /\ last'.obj = o

\* C5: get_usage_cpu on an entity without a last sample whose VM is running
\* does not raise, returns None, and leaves on the entity the sample
\* (epoch_ns, total, system, user) of this read.
C5_FirstUsageCpuIsNone ==
  [][\A o \in Objects :
       (UsageCpuStep(o) /\ heap[o].time = <<>> /\ hv[heap[o].uuid].state = "running")
       => /\ last'.exc = "none"
          /\ last'.ret = "None"
          /\ clock' > clock
          /\ heap'[o].time = <<clock',
                               getCPUStats(heap[o].uuid).cpu_time,
                               getCPUStats(heap[o].uuid).system_time,
                               getCPUStats(heap[o].uuid).user_time>>]_vars

\* C5 witness: a first read of a VM that has consumed CPU time.
C5_Witness ==
  /\ last.op = "usage_cpu" /\ last.ret = "None"
  /\ heap[last.obj].time # <<>>
  /\ heap[last.obj].time[2] > 0
  /\ heap[last.obj].time[3] # heap[last.obj].time[4]

\* The fraction num/den lies in [0, 1].
InUnit(num, den) == den > 0 /\ 0 <= num /\ num <= den

\* C6: every value get_usage_cpu returns from the second successful call
\* on lies in [0, 1].
C6_UsageCpuInUnit ==
  (last.op = "usage_cpu" /\ last.ret = "float") => InUnit(last.num, last.den)

\* The step is get_usage_mem(o).
UsageMemStep(o) == last'.op = "usage_mem" /\ last'.obj = o

\* C7: get_usage_mem on an entity whose VM is running returns rss/actual,
\* or 1 when rss > actual, hence a value in [0, 1]; the result depends on
\* the two counters only and no entity, nor the cache, is changed.
C7_UsageMemClamped ==
  [][\A o \in Objects :
       (UsageMemStep(o) /\ hv[heap[o].uuid].state = "running")
       => /\ last'.exc = "none"
          /\ last'.ret = "float"
          /\ InUnit(last'.num, last'.den)
          /\ IF last'.rss > last'.actual
             THEN last'.num = last'.den
             ELSE last'.num * last'.actual = last'.rss * last'.den
          /\ heap' = heap
          /\ cache_entity' = cache_entity]_vars

\* C7 witness: rss greater than actual, on an entity that carries a sample.
C7_Witness ==
  /\ last.op = "usage_mem" /\ last.ret = "float"
  /\ last.rss > last.actual
  /\ last.num = last.den
  /\ heap[last.obj].time # <<>>

\* C8: get_usage_cpu and get_usage_mem on the entity of a VM that is no
\* longer running (stopped or vanished) end with ConsumerNotAlived, and
\* nothing else.
C8_NotAliveIsConsumerNotAlived ==
  (last.op \in {"usage_cpu", "usage_mem"} /\ hv[last.uuid].state # "running")
  => last.exc = "ConsumerNotAlived"

\* The ids of cpu_list.
IdsOf(cpu_list) == {cpu_list[k] : k \in 1..Len(cpu_list)}

\* C9: for ids all within 0..host_config-1, build_cpu_pinning returns a
\* tuple of length host_config that is True at index i exactly when i is an
\* id of cpu_list; it changes neither the cache, nor an entity, nor the
\* hypervisor, and its result is determined by its two arguments.
C9_TemplateMarksAuthorized ==
  [][(last'.op = "build" /\ IdsOf(last'.cpu_list) \subseteq 0..(last'.host_config - 1))
     => /\ last'.exc = "none"
        /\ last'.ret = "tuple"
        /\ Len(last'.tpl) = last'.host_config
        /\ \A i \in 0..(last'.host_config - 1) :
             last'.tpl[i + 1] <=> (i \in IdsOf(last'.cpu_list))
        /\ UNCHANGED <<hv, clock, cache_entity, heap>>]_vars

\* C9 witness: two authorized CPUs out of three cores, with an entity cached.
C9_Witness ==
  /\ last.op = "build" /\ last.ret = "tuple"
  /\ last.host_config = 3
  /\ IdsOf(last.cpu_list) = {0, 2}
  /\ last.tpl = <<TRUE, FALSE, TRUE>>
  /\ DOMAIN cache_entity # {}

\* C10: build_cpu_pinning raises, and returns no template, whenever some id
\* of cpu_list is not one of 0..host_config-1.
C10_OutOfRangeRaises ==
  (last.op = "build" /\ ~(IdsOf(last.cpu_list) \subseteq 0..(last.host_config - 1)))
  => (last.exc = "IndexError" /\ last.ret # "tuple")

(***************************************************************************)
(* Properties of the control loop.  The end of a tick is the step from     *)
(* position "budget" to position "begin"; the start of a tick is the step  *)
(* from "begin" to "iteration".                                            *)
(***************************************************************************)
TickEndStep == sched.pc = "budget" /\ sched'.pc = "begin"

TickBeginStep == sched.pc = "begin" /\ sched'.pc = "iteration"

\* C11: at the end of every tick, if the tick took less than delay the loop
\* sleeps, asking for exactly delay minus the time spent, and prints no
\* warning; if the tick took delay or more it does not sleep, prints one
\* warning carrying time spent minus delay, and the wall clock has not moved
\* when the next tick starts.  Every pass of the loop calls the policy pool
\* once (no tick is skipped), and two consecutive ticks start at least
\* delay apart.
C11_SleepRemainderOrWarn ==
  [][/\ sched.pc = "budget"
        => /\ sched'.pc = "begin"
           /\ sched'.ticks = sched.ticks
           /\ LET spent  == clock - sched.time_begin
                  budget == sched.delay * UnitsPerSec
              IN IF spent < budget
                 THEN /\ sched'.sleeps = <<budget - spent>>
                      /\ sched'.warns = <<>>
                      /\ clock' >= clock + (budget - spent)
                 ELSE /\ sched'.sleeps = <<>>
                      /\ sched'.warns = <<spent - budget>>
                      /\ clock' = clock
     /\ sched.pc = "begin"
        => /\ sched'.pc = "iteration"
           /\ sched'.ticks = sched.ticks + 1
           /\ sched'.time_begin = clock
           /\ clock' = clock
           /\ sched.ticks > 0
              => clock - sched.time_begin >= sched.delay * UnitsPerSec]_vars

\* C11 witness: with a delay of 1 s the second tick took 1.5 s: no sleep,
\* a warning of 0.5 s.
C11_Witness ==
  /\ sched.pc = "begin"
  /\ sched.delay = 1 /\ sched.ticks = 2
  /\ clock - sched.time_begin = 3
  /\ sched.sleeps = <<>>
  /\ sched.warns = <<1>>

\* C12: the argument of every call of the policy pool's iterate is the
\* whole number of seconds from the launch timestamp to the start of that
\* tick: the wall-clock time elapsed, truncated; the first one is 0 and the
\* arguments never decrease.
C12_TimestampIsElapsedSeconds ==
  [][TickBeginStep
     => /\ sched'.timestamp * UnitsPerSec <= clock - sched.launch_at
        /\ clock - sched.launch_at < (sched'.timestamp + 1) * UnitsPerSec
        /\ sched'.timestamp >= sched.timestamp
        /\ (sched.ticks = 0 => sched'.timestamp = 0)]_vars

\* C12 witness: with a delay of 1 s the third tick starts 3 s after the
\* launch, two ticks times the delay being 2 s.
C12_Witness ==
  /\ sched.pc = "iteration"
  /\ sched.delay = 1 /\ sched.ticks = 3
  /\ sched.timestamp = 3
  /\ clock - sched.launch_at \in {6, 7}

\* C15: when the connection cannot be opened, the construction of the
\* adapter ends with an exception, the object never gets its entity cache
\* and the process ends without a tick; and whenever the loop is in a tick,
\* or has made one, the adapter is a connected one with its cache.
C15_NoTickWithoutConnection ==
  /\ []((sched.pc \in {"begin", "iteration", "budget"} \/ sched.ticks > 0)
        => (connector.conn = "open" /\ "cache_entity" \in connector.attrs))
  /\ [](sched.pc = "exited" => sched.ticks = 0)
  /\ [][(sched.pc = "start" /\ connector'.conn # "open")
        => /\ sched'.pc = "exited"
           /\ sched'.exc # "none"
           /\ "cache_entity" \notin connector'.attrs]_vars

\* C15 witness: libvirt.open returned no connection and the process ended.
C15_Witness ==
  /\ sched.pc = "exited" /\ sched.exc = "SystemExit"
  /\ connector.conn = "None"
  /\ "cache_entity" \notin connector.attrs
  /\ sched.ticks = 0

\* C13: whenever the API context reads the entity cache, interleaved at
\* any point with convert_to_entitydomain, update_cpu_pinning and
\* cache_purge of the loop context, the cache exists and each of its
\* entries is a fully constructed entity stored under its own UUID.
C13_ReaderFindsCache ==
  last.op = "read"
  => /\ last.exc = "none"
     /\ \A u \in DOMAIN cache_entity :
          /\ cache_entity[u] \in Objects
          /\ heap[cache_entity[u]].uuid = u
          /\ DOMAIN heap[cache_entity[u]] =
               {"uuid", "name", "mem", "cpu", "cpu_pin", "cpu_ratio", "time"}

\* C14: cache_purge leaves the cache empty (and every entity and the
\* hypervisor as they were); an entry only comes into the cache by a
\* resolution of its UUID; and a resolution without force_update of a UUID
\* the cache does not hold (the VM still existing) reads name, memory, vCPU
\* count, pin masks and descriptor, constructs a new entity from them and
\* caches it, writing the default and warning again when the descriptor it
\* reads still holds no ratio.
C14_PurgeThenFullReread ==
  [][/\ last'.op = "purge"
        => (cache_entity' = EmptyCache /\ heap' = heap /\ hv' = hv)
     /\ \A u \in UUIDS :
          (u \notin DOMAIN cache_entity /\ u \in DOMAIN cache_entity')
          => (last'.op = "convert" /\ last'.uuid = u)
     /\ \A u \in UUIDS :
          (ConvertStep(u, FALSE) /\ u \notin DOMAIN cache_entity
             /\ hv[u].state # "undefined")
          => /\ last'.exc = "none"
             /\ \A c \in {"name", "maxMemory", "maxVcpus", "vcpuPinInfo", "XMLDesc"} :
                  Count(last'.calls, c) = 1
             /\ last'.ret_obj = Len(heap) + 1
             /\ Len(heap') = Len(heap) + 1
             /\ cache_entity'[u] = last'.ret_obj
             /\ heap'[last'.ret_obj].uuid = u
             /\ heap'[last'.ret_obj].cpu_pin = hv[u].pin
             /\ heap'[last'.ret_obj].time = <<>>
             /\ Count(last'.calls, "defineXML") = (IF XMLDesc(u) = NoRatio THEN 1 ELSE 0)
             /\ Len(last'.warn) = (IF XMLDesc(u) = NoRatio THEN 1 ELSE 0)]_vars

\* C14 witness: a VM resolved before the purge was resolved again after it,
\* without force_update: a second entity, a second descriptor write and a
\* second warning, the VM not having restarted.
C14_Witness ==
  /\ last.op = "convert" /\ ~last.force /\ last.exc = "none"
  /\ last.ret_obj = 2 /\ heap[1].uuid = last.uuid
  /\ DOMAIN cache_entity = {last.uuid}
  /\ Count(last.calls, "defineXML") = 1
  /\ last.warn = <<NameOf(last.uuid)>>

\* The rate get_usage_cpu returns for entity o at the step, computed from
\* the sample o carried before the step.
RateAgainstOwnSample(o) ==
  LET n == getCPUStats(heap[o].uuid).cpu_time - heap[o].time[2]
      d == (clock' - heap[o].time[1]) * heap[o].cpu
  IN IF n > d THEN <<1, 1>> ELSE <<n, d>>

\* C16: an entity's last sample changes only by a get_usage_cpu on that
\* entity that does not raise, and becomes the sample just read; a
\* get_usage_cpu that raises, get_usage_mem, update_cpu_pinning, cache_purge
\* and a cache-hit resolution leave every entity as it was (and so does
\* build_cpu_pinning, C9); hence a get_usage_cpu that returns a rate
\* computes it against the sample the entity was last given.
C16_SampleChangesOnlyOnUsageCpu ==
  [][/\ Len(heap') >= Len(heap)
     /\ \A o \in Objects :
          heap'[o].time # heap[o].time
          => /\ UsageCpuStep(o)
             /\ last'.exc = "none"
             /\ heap'[o].time = <<clock',
                                  getCPUStats(heap[o].uuid).cpu_time,
                                  getCPUStats(heap[o].uuid).system_time,
                                  getCPUStats(heap[o].uuid).user_time>>
     /\ (last'.op = "usage_cpu" /\ last'.exc # "none") => heap' = heap
     /\ last'.op \in {"usage_mem", "pin", "purge"} => heap' = heap
     /\ (last'.op = "convert" /\ last'.calls = <<"UUIDString">>) => heap' = heap
     /\ \A o \in Objects :
          (UsageCpuStep(o) /\ last'.ret = "float")
          => /\ heap[o].time # <<>>
             /\ <<last'.num, last'.den>> = RateAgainstOwnSample(o)]_vars

\* C16 witness: a read that ended with ConsumerNotAlived left the older
\* sample on the entity.
C16_Witness ==
  /\ last.op = "usage_cpu" /\ last.exc = "ConsumerNotAlived"
  /\ heap[last.obj].time # <<>>
  /\ heap[last.obj].time[1] < clock

\* C17: the cache holds, under each key u, one entity, whose uuid is u; a
\* resolution that returns hands out the entity then cached under the
\* handle's UUID; and the entity cached under u stays the same object from
\* one fresh conversion of u or purge to the next.
C17_OneEntityPerUuid ==
  /\ [](\A u \in DOMAIN cache_entity :
          /\ u \in UUIDS
          /\ cache_entity[u] \in Objects
          /\ heap[cache_entity[u]].uuid = u)
  /\ [][/\ \A u \in UUIDS, f \in BOOLEAN :
             (ConvertStep(u, f) /\ last'.exc = "none")
             => /\ u \in DOMAIN cache_entity'
                /\ cache_entity'[u] = last'.ret_obj
                /\ (~FreshConversion(u, f) => last'.ret_obj = cache_entity[u])
        /\ \A u \in DOMAIN cache_entity :
             (last'.op # "purge" /\ ~FreshConversion(u, TRUE) /\ ~FreshConversion(u, FALSE))
             => (u \in DOMAIN cache_entity' /\ cache_entity'[u] = cache_entity[u])
        /\ \A o \in Objects : heap'[o].uuid = heap[o].uuid]_vars

\* C17 witness: after a refresh, a resolution without force_update returned
\* the VM's second entity, the one the cache now holds; the first entity
\* still exists but is cached under no key.
C17_Witness ==
  /\ last.op = "convert" /\ ~last.force
  /\ last.calls = <<"UUIDString">>
  /\ last.ret_obj = 2
  /\ heap[1].uuid = last.uuid /\ heap[2].uuid = last.uuid
  /\ cache_entity = (last.uuid :> 2)

\* C20: a fresh conversion (forced, or after a purge) caches a new object
\* that carries no last sample and leaves every older object, its sample
\* included, as it was; a get_usage_cpu on an object without a sample
\* returns None whatever other objects of the same VM carry, and one on an
\* object with a sample computes its rate from that object's own sample and
\* changes no other object.
C20_RefreshedEntityStartsUnsampled ==
  [][/\ \A u \in UUIDS, f \in BOOLEAN :
          FreshConversion(u, f)
          => /\ last'.ret_obj \notin Objects
             /\ last'.ret_obj \in 1..Len(heap')
             /\ cache_entity'[u] = last'.ret_obj
             /\ heap'[last'.ret_obj].time = <<>>
             /\ \A o \in Objects : heap'[o] = heap[o]
     /\ \A o \in Objects :
          (UsageCpuStep(o) /\ last'.exc = "none")
          => /\ (heap[o].time = <<>> => last'.ret = "None")
             /\ (heap[o].time # <<>>
                   => /\ last'.ret = "float"
                      /\ <<last'.num, last'.den>> = RateAgainstOwnSample(o))
             /\ heap'[o].time[1] = clock'
             /\ \A p \in Objects \ {o} : heap'[p] = heap[p]]_vars

\* C20 witness: the VM was sampled through its first entity; after a
\* refresh, the first read through the second entity returned None, and
\* the first entity still carries its own, older sample.
C20_Witness ==
  /\ last.op = "usage_cpu" /\ last.ret = "None" /\ last.obj = 2
  /\ heap[1].uuid = heap[2].uuid
  /\ heap[1].time # <<>>
  /\ heap[2].time # <<>>
  /\ heap[1].time[1] < heap[2].time[1]
  /\ cache_entity[heap[2].uuid] = 2

\* C18: update_cpu_pinning compares the template with the masks the
\* hypervisor reports at the call, whatever masks the entity recorded when
\* it was converted: it writes exactly when one of the hypervisor's masks
\* differs from the template; and it changes neither the entity, nor any
\* other entity, nor the cache, whether it writes or not.
C18_DriftCheckReadsHypervisor ==
  [][\A o \in Objects, t \in Masks :
       PinStep(o, t)
       => LET u == heap[o].uuid
          IN /\ heap' = heap
             /\ cache_entity' = cache_entity
             /\ hv[u].state # "undefined"
                => /\ last'.seen_pin = hv[u].pin
                   /\ (last'.pins # <<>>)
                        <=> (\E v \in 1..VcpuOf(u) : hv[u].pin[v] # t)]_vars

\* C18 witness: the entity's recorded masks equal the template, the
\* hypervisor's do not any more, and the VM was repinned.
C18_Witness ==
  /\ last.op = "pin" /\ last.exc = "none"
  /\ \A v \in 1..Len(heap[last.obj].cpu_pin) : heap[last.obj].cpu_pin[v] = last.tpl
  /\ \E v \in 1..Len(last.seen_pin) : last.seen_pin[v] # last.tpl
  /\ last.pins # <<>>

\* C19: when update_cpu_pinning(vm, t) returns, every vCPU's mask is t; it
\* has then made either no write or one write per vCPU, the latter exactly
\* when it found a mask different from t; and called again with the same
\* template right after, nothing else having happened, it makes no write.
C19_PinningIdempotent ==
  [][\A o \in Objects, t \in Masks :
       (PinStep(o, t) /\ last'.exc = "none")
       => LET u == heap[o].uuid
              n == VcpuOf(u)
          IN /\ \A v \in 1..n : hv'[u].pin[v] = t
             /\ Len(last'.pins) \in {0, n}
             /\ (Len(last'.pins) = n) <=> (\E v \in 1..n : hv[u].pin[v] # t)
             /\ (last.op = "pin" /\ last.uuid = u /\ last.tpl = t /\ last.exc = "none")
                => last'.pins = <<>>]_vars

\* C19 witness: a VM with two vCPUs was repinned to a template other than
\* the default, and both its masks now are the template.
C19_Witness ==
  /\ last.op = "pin" /\ last.exc = "none"
  /\ last.tpl # AllCores
  /\ Len(last.pins) = 2
  /\ \A v \in 1..2 : hv[last.uuid].pin[v] = last.tpl

====
